---- MODULE Spec2Model ----
(***************************************************************************)
(* Model of the projectpad search-result view: the immediate-mode paint   *)
(* pass of search_view_render.rs, the region table it rebuilds, the        *)
(* pointer resolution against that table, the note view of                 *)
(* project_poi_contents.rs, the project badge of project_badge.rs, the     *)
(* server dialog of server_add_edit_dlg.rs, the project list of            *)
(* project_list.rs and the command-line history of ppcli config.rs.        *)
(*                                                                         *)
(* Strings are sequences of one-character strings, so that prefix tests    *)
(* and slicing are computed and not assumed.  Option<T> is a sequence of   *)
(* length at most one: None is <<>>, Some(v) is <<v>>.                     *)
(***************************************************************************)
EXTENDS Integers, Sequences, FiniteSets, TLC

VARIABLES
    items,            \* the item collection handed to the paint pass
    width,            \* search_result_area.get_allocation().width
    theme,            \* the style metrics the toolkit answers with
    style_classes,    \* CSS classes carried by the shared gtk::StyleContext
    links,            \* Vec<(Area, String)>
    action_buttons,   \* Vec<(Area, ProjectPadItem)>
    buttons,          \* draw_button calls of the last paint pass
    boxes,            \* draw_box backgrounds of the last paint pass
    frame,            \* inputs of the last completed paint pass (Option)
    pressed_item,     \* item_with_depressed_icon: Option<ProjectPadItem>
    phase,            \* "idle" | "pressed" | "shown"
    last_event,       \* the pointer event this step handled (Option)
    host,             \* the action this step handed to the application (Option)
    presses,          \* pointer-down events handled so far
    \* the note view (ProjectPoiContents)
    note_label_adj_value,   \* committed scroll offset
    cur_project_item,       \* Option<ProjectItem>
    note_links,             \* Vec<LinkInfo>
    note_buffer,            \* the buffer set on note_textview
    cursor,                 \* cursor of the text window: "none" | "pointer" | "text"
    visible_child,          \* contents_stack's visible child
    server_note_header,     \* server_note_title's text and server_note_back's visibility
    pass_popover,           \* Option<secret the popover was built for>
    note_event,             \* the event this step handled (Option)
    opened,                 \* the uri this step gave to gtk::show_uri_on_window (Option)
    scroll_seen,            \* the value this step's scroll notification carried (Option)
    hover_at,               \* the location this step's pointer motion fell on (Option)
    \* the project badge (ProjectBadge)
    font_size_for_width,    \* Option<(i32, f64)>: the cached font size
    allocation_width,       \* drawing_area.get_allocation().width
    badge_drawn,            \* what the latest draw did (Option)
    \* the server dialog (ServerAddEditDialog)
    server_id,              \* Option<i32>: the server being edited
    group_name,             \* Option<String>: the group of the server being edited
    group_active_text,      \* self.group.get_active_text(): Option<String>
    auth_key_filename,      \* Option<String>
    auth_key,               \* Option<Vec<u8>>
    auth_key_stack,         \* auth_key_stack's visible child: "file" | "no_file"
    written_file,           \* the key file this step wrote to a folder (Option)
    saved_server,           \* the server row the latest save wrote (Option)
    \* the project list (ProjectList)
    projects,               \* Vec<Project>
    active_project_id,      \* Option<i32>
    children_widgets,       \* the projects the badges of the list were built for
    stream,                 \* relm's event stream of the widget: messages not yet handled
    fetches,                \* fetch_projects requests the sql thread has not answered
    \* the command line's history (ppcli config.rs)
    history_file,           \* contents of the cli-history file
    write_call,             \* the latest write_history call and how it ended (Option)
    round_trip              \* the latest history line serialized and parsed back (Option)

searchVars == <<items, width, theme, style_classes, links, action_buttons, buttons,
                boxes, frame, pressed_item, phase, last_event, host, presses>>

noteVars == <<note_label_adj_value, cur_project_item, note_links, note_buffer,
              cursor, visible_child, server_note_header, pass_popover,
              note_event, opened, scroll_seen, hover_at>>

badgeVars == <<font_size_for_width, allocation_width, badge_drawn>>

\* What the handlers of one widget leave alone: the other widgets.
dialogVars == <<server_id, group_name, group_active_text, auth_key_filename,
                auth_key, auth_key_stack, written_file, saved_server>>

listVars == <<projects, active_project_id, children_widgets, stream, fetches>>

historyVars == <<history_file, write_call, round_trip>>

restVars == <<badgeVars, dialogVars, listVars, historyVars>>

notBadge == <<searchVars, noteVars, dialogVars, listVars, historyVars>>

notDialog == <<searchVars, noteVars, badgeVars, listVars, historyVars>>

notList == <<searchVars, noteVars, badgeVars, dialogVars, historyVars>>

notHistory == <<searchVars, noteVars, badgeVars, dialogVars, listVars>>

vars == <<searchVars, noteVars, restVars>>

(***************************************************************************)
(* Bounds.                                                                 *)
(***************************************************************************)
MaxItems == 2

MaxPresses == 2

\* Widths the badge is allocated.
MaxBadgeWidth == 12

\* Messages sent to the project list and not yet handled, and project
\* fetches not yet answered.
MaxSent == 2

MaxFetches == 2

\* Entries of the history handed to write_history, and its limit.
MaxHistory == 2

MaxLimit == 2

(***************************************************************************)
(* Program constants.                                                      *)
(***************************************************************************)
LEFT_RIGHT_MARGIN == 150

ACTION_ICON_SIZE == 16

PROJECT_ICON_SIZE == 56

ACTION_ICON_OFFSET_FROM_RIGHT == 50

PANGO_SCALE == 1024

ELLIPSIZE_WIDTH == 350

SEARCH_RESULT_WIDGET_HEIGHT == 120

(***************************************************************************)
(* Option and string helpers.                                              *)
(***************************************************************************)
None == <<>>

Some(v) == <<v>>

Min(a, b) == IF a < b THEN a ELSE b

starts_with(s, prefix) ==
    /\ Len(s) >= Len(prefix)
    /\ SubSeq(s, 1, Len(prefix)) = prefix

PASS_SCHEME == <<"p", "a", "s", "s", ":", "/", "/">>

HttpsX == <<"h", "t", "t", "p", "s", ":", "/", "/", "x">>

PassP1 == PASS_SCHEME \o <<"p", "1">>

EmptyStr == <<>>

(***************************************************************************)
(* Geometry: Area, with the inclusive top-left / exclusive bottom-right    *)
(* containment of the data model.                                          *)
(***************************************************************************)
Area(x, y, w, h) == [x |-> x, y |-> y, width |-> w, height |-> h]

contains_inclusive(area, px, py) ==
    /\ area.x <= px /\ px <= area.x + area.width
    /\ area.y <= py /\ py <= area.y + area.height

contains(area, px, py) ==
    /\ area.x <= px /\ px < area.x + area.width
    /\ area.y <= py /\ py < area.y + area.height

(***************************************************************************)
(* Items.  A ProjectPadItem is a variant tag and a copy of its record; the *)
(* record is reduced to its row id, the text drawn as title and, for a     *)
(* website, its url.                                                       *)
(***************************************************************************)
Kinds ==
    {"Project", "Server", "ServerNote", "ProjectNote", "ServerWebsite",
     "ServerExtraUserAccount", "ServerPoi", "ProjectPoi", "ServerDatabase",
     "ServerLink"}

\* `url` holds the second text of the record: the url of a website, the
\* text drawn as subtext for the other kinds.
Item(kind, id, desc, url) == [kind |-> kind, id |-> id, desc |-> desc, url |-> url]

item_eq_by_id(a, b) == a.kind = b.kind /\ a.id = b.id

\* #[derive(PartialEq, Eq)]: the variant and every field of the record.
item_eq(a, b) ==
    /\ a.kind = b.kind
    /\ a.id = b.id
    /\ a.desc = b.desc
    /\ a.url = b.url

(***************************************************************************)
(* Style metrics.  The toolkit's answers are opaque to the program: a      *)
(* theme fixes the padding and margin borders and the font's glyph box.    *)
(* The margin is the stylesheet's for the row class the context carries:   *)
(* search_view_child rows have a margin of their own.                      *)
(***************************************************************************)
Border(l, r, t, b) == [left |-> l, right |-> r, top |-> t, bottom |-> b]

Themes ==
    { [padding |-> Border(5, 5, 5, 5), margin |-> Border(0, 0, 10, 0),
       child_margin |-> Border(20, 20, 10, 0),
       glyph_w |-> 8, line_h |-> 17],
      [padding |-> Border(5, 5, 2, 20), margin |-> Border(4, 4, 0, 0),
       child_margin |-> Border(4, 4, 0, 0),
       glyph_w |-> 8, line_h |-> 17] }

get_padding_by_frame_class(th, classes) ==
    IF "frame" \in classes THEN Border(0, 0, 0, 0) ELSE th.padding

get_padding(th, classes) == th.padding

get_margin(th, classes) ==
    IF "search_view_child" \in classes THEN th.child_margin ELSE th.margin

\* pango::Layout::get_extents().1 for a single line ellipsized at 350 px,
\* in pango units.
layout_extents(th, text) ==
    [width  |-> Min(ELLIPSIZE_WIDTH * PANGO_SCALE, Len(text) * th.glyph_w * PANGO_SCALE),
     height |-> th.line_h * PANGO_SCALE]

(***************************************************************************)
(* The paint pass.  A paint state carries what the drawing functions       *)
(* write: the two region vectors, the style context's classes and the      *)
(* canvas calls that matter to the view.                                   *)
(***************************************************************************)
add_class(st, c) == [st EXCEPT !.classes = @ \cup {c}]

remove_class(st, c) == [st EXCEPT !.classes = @ \ {c}]

draw_button(st, item_type, flags, x, y, w, h) ==
    [st EXCEPT !.buttons = Append(@,
        [item_type |-> item_type, flags |-> flags,
         area |-> Area(x, y, w, h)])]

draw_box_full_height(st, th, w, hierarchy_offset, y) ==
    LET margin == get_margin(th, st.classes)
        st1 == [st EXCEPT !.boxes = Append(@,
                  Area(margin.left + hierarchy_offset,
                       y + margin.top,
                       w - margin.left - margin.right - hierarchy_offset * 2,
                       SEARCH_RESULT_WIDGET_HEIGHT))]
        st2 == add_class(st1, "frame")
    IN  remove_class(st2, "button")

draw_box(st, th, w, hierarchy_offset, y) ==
    LET margin == get_margin(th, st.classes)
        st1 == [st EXCEPT !.boxes = Append(@,
                  Area(margin.left + hierarchy_offset,
                       y + margin.top,
                       w - margin.left - margin.right - hierarchy_offset * 2,
                       SEARCH_RESULT_WIDGET_HEIGHT - margin.top))]
        st2 == add_class(st1, "frame")
    IN  remove_class(st2, "button")

\* Returns the paint state and the title's extents.
draw_title(st, th, text, custom_class) ==
    LET clazz == IF custom_class = None
                 THEN "search_result_item_title"
                 ELSE custom_class[1]
        st1 == add_class(st, clazz)
    IN  [st |-> remove_class(st1, clazz), rect |-> layout_extents(th, text)]

draw_basic_layout(st, th, text, x, y) ==
    LET padding == get_padding(th, st.classes)
    IN  [extents |-> layout_extents(th, text),
         left |-> x + padding.left,
         top |-> y + padding.top]

draw_link_no_push(st, th, text, x, y) ==
    LET st1 == add_class(st, "search_result_item_link")
    IN  remove_class(st1, "search_result_item_link")

draw_link(st, th, text, x, y) ==
    LET st1 == add_class(st, "search_result_item_link")
        l == draw_basic_layout(st1, th, text, x, y)
        st2 == [st1 EXCEPT !.links = Append(@,
                  [area |-> Area(l.left, l.top,
                                 l.extents.width \div PANGO_SCALE,
                                 l.extents.height \div PANGO_SCALE),
                   payload |-> text])]
    IN  remove_class(st2, "search_result_item_link")

draw_subtext(st, th, text, x, y) ==
    LET st1 == add_class(st, "search_result_item_subtext")
    IN  remove_class(st1, "search_result_item_subtext")

draw_environment(st, th, env_name) ==
    LET label_classname == "environment_label_" \o env_name
        st1 == add_class(st, label_classname)
    IN  remove_class(st1, label_classname)

draw_action_never_checked(st, th, item, item_with_depressed_icon, x, y) ==
    LET st1 == add_class(st, "search_result_action_btn")
        padding == get_padding(th, st1.classes)
        w == ACTION_ICON_SIZE + (padding.left + padding.right)
        h == ACTION_ICON_SIZE + (padding.top + padding.bottom)
        item_type == IF item.kind = "Server" THEN "Parent" ELSE "Child"
        st2 == draw_button(st1, item_type, "NORMAL", x, y, w, h)
        st3 == remove_class(st2, "search_result_action_btn")
    IN  [st3 EXCEPT !.action_buttons = Append(@,
            [area |-> Area(x, y, w, h), item |-> item])]

draw_action_twice(st, th, item, item_with_depressed_icon, x, y) ==
    LET st1 == add_class(st, "search_result_action_btn")
        padding == get_padding(th, st1.classes)
        w == ACTION_ICON_SIZE + (padding.left + padding.right)
        h == ACTION_ICON_SIZE + (padding.top + padding.bottom)
        flags == IF item_with_depressed_icon # None
                    /\ item_eq(item, item_with_depressed_icon[1])
                 THEN "CHECKED" ELSE "NORMAL"
        item_type == IF item.kind = "Server" THEN "Parent" ELSE "Child"
        st2 == draw_button(st1, item_type, flags, x, y, w, h)
        st3 == remove_class(st2, "search_result_action_btn")
        e == [area |-> Area(x, y, w, h), item |-> item]
    IN  [st3 EXCEPT !.action_buttons = Append(Append(@, e), e)]

draw_action(st, th, item, item_with_depressed_icon, x, y) ==
    LET st1 == add_class(st, "search_result_action_btn")
        padding == get_padding(th, st1.classes)
        w == ACTION_ICON_SIZE + (padding.left + padding.right)
        h == ACTION_ICON_SIZE + (padding.top + padding.bottom)
        flags == IF item_with_depressed_icon # None
                    /\ item_eq(item, item_with_depressed_icon[1])
                 THEN "CHECKED" ELSE "NORMAL"
        item_type == IF item.kind = "Server" THEN "Parent" ELSE "Child"
        st2 == draw_button(st1, item_type, flags, x, y, w, h)
        st3 == remove_class(st2, "search_result_action_btn")
    IN  [st3 EXCEPT !.action_buttons = Append(@,
            [area |-> Area(x, y, w, h), item |-> item])]

draw_project(st, th, w, x, y, project) ==
    (draw_title(st, th, project.desc, Some("search_result_project_title"))).st

\* Returns the paint state with the metrics the callers go on with.
draw_server_item_common_deeper(st, th, w, x, y, title, item, item_with_depressed_action) ==
    LET padding == get_padding(th, st.classes)
        margin == get_margin(th, st.classes)
        st1 == draw_box(st, th, w,
                        IF "search_view_child" \in st.classes
                        THEN 2 * LEFT_RIGHT_MARGIN ELSE LEFT_RIGHT_MARGIN, y)
        t == draw_title(st1, th, title, None)
        st2 == draw_action(t.st, th, item, item_with_depressed_action,
                           w - ACTION_ICON_OFFSET_FROM_RIGHT - LEFT_RIGHT_MARGIN,
                           y + padding.top + margin.top)
    IN  [st |-> st2, padding |-> padding, margin |-> margin, title_rect |-> t.rect]

draw_server_item_common(st, th, w, x, y, title, item, item_with_depressed_action) ==
    LET padding == get_padding(th, st.classes)
        margin == get_margin(th, st.classes)
        st1 == draw_box(st, th, w, LEFT_RIGHT_MARGIN, y)
        t == draw_title(st1, th, title, None)
        st2 == draw_action(t.st, th, item, item_with_depressed_action,
                           w - ACTION_ICON_OFFSET_FROM_RIGHT - LEFT_RIGHT_MARGIN,
                           y + padding.top + margin.top)
    IN  [st |-> st2, padding |-> padding, margin |-> margin, title_rect |-> t.rect]

draw_server_website(st, th, w, x, y, item, item_with_depressed_action) ==
    LET c == draw_server_item_common(st, th, w, x, y, item.desc, item,
                                     item_with_depressed_action)
    IN  draw_link(c.st, th, item.url,
                  x + c.padding.left,
                  y + c.margin.top + (c.title_rect.height \div PANGO_SCALE)
                    + c.padding.top)

\* draw_server_extra_user, draw_server_poi, draw_project_poi and
\* draw_server_database: the common part, then a subtext line.
draw_with_subtext(st, th, w, x, y, item, item_with_depressed_action) ==
    LET c == draw_server_item_common(st, th, w, x, y, item.desc, item,
                                     item_with_depressed_action)
    IN  draw_subtext(c.st, th, item.url,
                     x + c.padding.left,
                     y + c.margin.top + (c.title_rect.height \div PANGO_SCALE)
                       + c.padding.top)

\* draw_linked_server, draw_project_note and draw_server_note: the common
\* part alone.
draw_bare(st, th, w, x, y, item, item_with_depressed_action) ==
    (draw_server_item_common(st, th, w, x, y, item.desc, item,
                             item_with_depressed_action)).st

draw_server(st, th, w, hierarchy_offset, x, y, item, item_with_depressed_action) ==
    LET padding == get_padding(th, st.classes)
        margin == get_margin(th, st.classes)
        st1 == draw_box(st, th, w, hierarchy_offset, y)
        t == draw_title(st1, th, item.desc, None)
        st2 == draw_environment(t.st, th, "prod")
    IN  draw_action(st2, th, item, item_with_depressed_action,
                    w - ACTION_ICON_OFFSET_FROM_RIGHT - LEFT_RIGHT_MARGIN,
                    y + padding.top + margin.top)

draw_child(st, th, w, item, y, item_with_depressed_icon) ==
    LET extra_css_class ==
            IF item.kind \in {"Server", "ProjectNote", "ProjectPoi"}
            THEN "search_view_parent" ELSE "search_view_child"
        st1 == add_class(st, extra_css_class)
        padding == get_padding(th, st1.classes)
        x == padding.left + LEFT_RIGHT_MARGIN
        st2 ==
            CASE item.kind = "Project" ->
                    draw_project(st1, th, w, x, y, item)
              [] item.kind = "Server" ->
                    draw_server(st1, th, w, LEFT_RIGHT_MARGIN, x, y, item,
                                item_with_depressed_icon)
              [] item.kind = "ServerWebsite" ->
                    draw_server_website(st1, th, w, x, y, item,
                                        item_with_depressed_icon)
              [] item.kind \in {"ServerExtraUserAccount", "ServerPoi",
                                "ProjectPoi", "ServerDatabase"} ->
                    draw_with_subtext(st1, th, w, x, y, item,
                                      item_with_depressed_icon)
              [] item.kind \in {"ServerNote", "ProjectNote", "ServerLink"} ->
                    draw_bare(st1, th, w, x, y, item, item_with_depressed_icon)
    IN  remove_class(st2, extra_css_class)


(***************************************************************************)
(* The draw handler: the region vectors are emptied, then every item is    *)
(* drawn at its row, top to bottom.                                        *)
(***************************************************************************)
RECURSIVE paint_rows(_, _, _, _, _, _)
paint_rows(st, th, w, its, i, item_with_depressed_icon) ==
    IF i > Len(its)
    THEN st
    ELSE \* row i is drawn, and the rows below it from the state it leaves
         CHOOSE r \in {paint_rows(s, th, w, its, i + 1, item_with_depressed_icon) :
                        s \in {draw_child(st, th, w, its[i],
                                          (i - 1) * SEARCH_RESULT_WIDGET_HEIGHT,
                                          item_with_depressed_icon)}} : TRUE

paint_keep_table(classes, ls, abs, its, th, w, item_with_depressed_icon) ==
    paint_rows([links |-> ls, action_buttons |-> abs,
                classes |-> classes, buttons |-> <<>>, boxes |-> <<>>],
               th, w, its, 1, item_with_depressed_icon)

paint(classes, ls, abs, its, th, w, item_with_depressed_icon) ==
    paint_rows([links |-> <<>>, action_buttons |-> <<>>,
                classes |-> classes, buttons |-> <<>>, boxes |-> <<>>],
               th, w, its, 1, item_with_depressed_icon)

(***************************************************************************)
(* The hit-test resolver.                                                  *)
(***************************************************************************)
NoAction == [type |-> "None"]

OpenLink(url) == [type |-> "OpenLink", url |-> url]

RevealSecret(value) == [type |-> "RevealSecret", value |-> value]

InvokeItemAction(item) == [type |-> "InvokeItemAction", item |-> item]

\* Index of the first region of `regions` that contains the pointer, or 0.
RECURSIVE find_region(_, _, _, _)
find_region(regions, px, py, i) ==
    IF i > Len(regions) THEN 0
    ELSE IF contains(regions[i].area, px, py) THEN i
    ELSE find_region(regions, px, py, i + 1)

link_action(payload) ==
    IF starts_with(payload, PASS_SCHEME)
    THEN RevealSecret(SubSeq(payload, Len(PASS_SCHEME) + 1, Len(payload)))
    ELSE OpenLink(payload)

resolve_buttons_first(px, py, ls, abs) ==
    LET j == find_region(abs, px, py, 1)
        i == find_region(ls, px, py, 1)
    IN  IF j # 0 THEN InvokeItemAction(abs[j].item)
        ELSE IF i # 0 THEN link_action(ls[i].payload)
        ELSE NoAction

resolve(px, py, ls, abs) ==
    LET i == find_region(ls, px, py, 1)
        j == find_region(abs, px, py, 1)
    IN  IF i # 0 THEN link_action(ls[i].payload)
        ELSE IF j # 0 THEN InvokeItemAction(abs[j].item)
        ELSE NoAction


(***************************************************************************)
(* Inputs.                                                                 *)
(***************************************************************************)
Widths == {400, 800}

\* One item of every kind, in the order the query lists them; the server in
\* two states of its record (same row, edited description); websites with a
\* url, a secret and no url.
ItemCatalog ==
    << Item("Project", 1, <<"p">>, EmptyStr),
       Item("Server", 1, <<"s">>, EmptyStr),
       Item("Server", 1, <<"t">>, EmptyStr),
       Item("ServerNote", 1, <<"n">>, EmptyStr),
       Item("ProjectNote", 1, <<"n">>, EmptyStr),
       Item("ServerWebsite", 1, <<"w">>, HttpsX),
       Item("ServerWebsite", 2, <<"w">>, EmptyStr),
       Item("ServerWebsite", 3, <<"w">>, PassP1),
       Item("ServerExtraUserAccount", 1, <<"u">>, <<"d">>),
       Item("ServerPoi", 1, <<"i">>, EmptyStr),
       Item("ProjectPoi", 1, <<"i">>, <<"x">>),
       Item("ServerDatabase", 1, <<"d">>, <<"x">>),
       Item("ServerLink", 1, <<"l">>, EmptyStr) >>

\* The items the view specification moves between.
ViewCatalog ==
    << Item("Server", 1, <<"s">>, EmptyStr),
       Item("Server", 1, <<"t">>, EmptyStr),
       Item("ServerWebsite", 1, <<"w">>, HttpsX) >>

\* The query results over a catalog: at most n of its items, in its order.
Results(catalog, n) ==
    LET picks == UNION {[1..k -> 1..Len(catalog)] : k \in 0..n}
        increasing(f) == \A i \in 1..Len(f) - 1 : f[i] < f[i + 1]
    IN  {[i \in 1..Len(f) |-> catalog[f[i]]] : f \in {g \in picks : increasing(g)}}

center(a) == <<a.x + a.width \div 2, a.y + a.height \div 2>>

Max(a, b) == IF a > b THEN a ELSE b

Regions(ls, abs) ==
    {ls[i].area : i \in 1..Len(ls)} \cup {abs[i].area : i \in 1..Len(abs)}

\* Where the pointer goes down: the centre of every region, the top-left
\* corner of every intersection of two regions, and a point in no region.
PointerCandidates(ls, abs) ==
    {center(a) : a \in Regions(ls, abs)}
    \cup {<<Max(r[1].x, r[2].x), Max(r[1].y, r[2].y)>> :
             r \in {q \in Regions(ls, abs) \X Regions(ls, abs) : q[1] # q[2]}}
    \cup {<<0, 0>>}

(***************************************************************************)
(* The note view (ProjectPoiContents).                                     *)
(*                                                                         *)
(* Note markup is a sequence of tokens: a run of plain text, a hyperlink   *)
(* or a secret, each with the number of characters it leaves in the        *)
(* buffer.  A location over the text view is the text offset              *)
(* get_iter_at_location answers with, or -1 where no text is laid out.     *)
(***************************************************************************)
TextRun(n) == [kind |-> "text", len |-> n, url |-> EmptyStr]

LinkRun(n, url) == [kind |-> "link", len |-> n, url |-> url]

PassRun(n, secret) == [kind |-> "pass", len |-> n, url |-> PASS_SCHEME \o secret]

LinkInfo(s, e, url) == [start_offset |-> s, end_offset |-> e, url |-> url]

\* Rendering: every link and secret token becomes one LinkInfo over the
\* range its text takes in the buffer, and that range carries the link tag.
RECURSIVE render_runs(_, _, _, _, _)
render_runs(runs, i, offset, spans, tagged) ==
    IF i > Len(runs)
    THEN [buffer |-> [len |-> offset, link_tags |-> tagged], links |-> spans]
    ELSE IF runs[i].kind = "text"
    THEN render_runs(runs, i + 1, offset + runs[i].len, spans, tagged)
    ELSE render_runs(runs, i + 1, offset + runs[i].len,
                     Append(spans, LinkInfo(offset, offset + runs[i].len, runs[i].url)),
                     tagged \cup (offset..(offset + runs[i].len - 1)))

note_markdown_to_text_buffer(note_contents) ==
    render_runs(note_contents, 1, 0, <<>>, {})

EmptyBuffer == [len |-> 0, link_tags |-> {}]

NoteContents ==
    { <<PassRun(2, <<"p", "1">>), TextRun(1), LinkRun(2, HttpsX)>>,
      <<TextRun(3)>> }

NoteTitles == {<<"a">>}

ProjectItems ==
    {[kind |-> "Server", contents |-> <<>>],
     [kind |-> "ProjectPointOfInterest", contents |-> <<>>]}
    \cup {[kind |-> "ProjectNote", contents |-> c] : c \in NoteContents}

ScrollValues == {0, 5, 15, 200, 280, 300}

SCROLL_JUMP == 200

SCROLL_NEAR_ZERO == 15

GDK_BUTTON_PRIMARY == 1

Locations(buf) == (-1)..buf.len

\* gtk::TextView::get_iter_at_location: the offset of the text under the
\* location, None where there is none.
get_iter_at_location(loc) == IF loc < 0 THEN None ELSE Some(loc)

iter_is_link_or_just_after(buf, offset) ==
    offset \in buf.link_tags \/ (offset - 1) \in buf.link_tags

iter_is_link(buf, offset) == offset \in buf.link_tags

InitNote ==
    /\ note_label_adj_value = 0
    /\ cur_project_item = None
    /\ note_links = <<>>
    /\ note_buffer = EmptyBuffer
    /\ cursor = "none"
    /\ visible_child = "server"
    /\ server_note_header = [title |-> EmptyStr, back_visible |-> FALSE]
    /\ pass_popover = None
    /\ note_event = None
    /\ opened = None
    /\ scroll_seen = None
    /\ hover_at = None

NoClick == note_event' = None /\ opened' = None

NoOutput == NoClick /\ scroll_seen' = None /\ hover_at' = None

display_note_append_links(note_contents) ==
    LET note_buffer_info == note_markdown_to_text_buffer(note_contents)
    IN  /\ note_links' = note_links \o note_buffer_info.links
        /\ note_buffer' = note_buffer_info.buffer

display_note(note_contents) ==
    LET note_buffer_info == note_markdown_to_text_buffer(note_contents)
    IN  /\ note_links' = note_buffer_info.links
        /\ note_buffer' = note_buffer_info.buffer

ProjectItemSelected ==
    /\ \E pi \in {None} \cup {Some(i) : i \in ProjectItems} :
          /\ cur_project_item' = pi
          /\ IF pi # None /\ pi[1].kind = "ProjectNote"
             THEN display_note(pi[1].contents)
             ELSE UNCHANGED <<note_links, note_buffer>>
          /\ visible_child' = IF pi # None /\ pi[1].kind = "ProjectNote"
                              THEN "note" ELSE "server"
    /\ NoOutput
    /\ UNCHANGED <<note_label_adj_value, cursor, server_note_header, pass_popover>>
    /\ UNCHANGED <<searchVars, restVars>>

scroll_commit_reset_on_jump(adj, val) ==
    IF adj - val > SCROLL_JUMP /\ val < SCROLL_NEAR_ZERO THEN 0 ELSE val

scroll_commit_any_near_zero(adj, val) ==
    IF adj - val > SCROLL_JUMP \/ val < SCROLL_NEAR_ZERO THEN adj ELSE val

\* The committed offset after a notification of val.
scroll_commit(adj, val) ==
    IF adj - val > SCROLL_JUMP /\ val < SCROLL_NEAR_ZERO THEN adj ELSE val

UpdateNoteScroll ==
    /\ \E val \in ScrollValues :
          /\ note_label_adj_value' = scroll_commit(note_label_adj_value, val)
          /\ scroll_seen' = Some(val)
    /\ NoClick
    /\ hover_at' = None
    /\ UNCHANGED <<cur_project_item, note_links, note_buffer, cursor,
                   visible_child, server_note_header, pass_popover>>
    /\ UNCHANGED <<searchVars, restVars>>

ActivateLink ==
    /\ \E uri \in {HttpsX, PassP1} :
          pass_popover' =
              IF starts_with(uri, PASS_SCHEME)
              THEN Some(SubSeq(uri, Len(PASS_SCHEME) + 1, Len(uri)))
              ELSE pass_popover
    /\ NoOutput
    /\ UNCHANGED <<note_label_adj_value, cur_project_item, note_links,
                   note_buffer, cursor, visible_child, server_note_header>>
    /\ UNCHANGED <<searchVars, restVars>>

ViewServerNote ==
    /\ \E c \in NoteContents, t \in NoteTitles :
          /\ display_note(c)
          /\ server_note_header' = [title |-> t, back_visible |-> TRUE]
    /\ visible_child' = "note"
    /\ NoOutput
    /\ UNCHANGED <<note_label_adj_value, cur_project_item, cursor, pass_popover>>
    /\ UNCHANGED <<searchVars, restVars>>

ServerNoteBack ==
    /\ server_note_header' = [title |-> EmptyStr, back_visible |-> FALSE]
    /\ visible_child' = "server"
    /\ NoOutput
    /\ UNCHANGED <<note_label_adj_value, cur_project_item, note_links,
                   note_buffer, cursor, pass_popover>>
    /\ UNCHANGED <<searchVars, restVars>>

TextViewMoveCursor_resets_scroll ==
    /\ \E loc \in Locations(note_buffer) :
          LET iter == get_iter_at_location(loc)
          IN  /\ cursor' = IF iter # None /\ iter_is_link(note_buffer, iter[1])
                           THEN "pointer" ELSE "text"
              /\ hover_at' = Some(loc)
    /\ note_label_adj_value' = 0
    /\ NoClick
    /\ scroll_seen' = None
    /\ UNCHANGED <<cur_project_item, note_links, note_buffer, visible_child,
                   server_note_header, pass_popover>>
    /\ UNCHANGED <<searchVars, restVars>>

TextViewMoveCursor ==
    /\ \E loc \in Locations(note_buffer) :
          LET iter == get_iter_at_location(loc)
          IN  /\ cursor' = IF iter # None /\ iter_is_link(note_buffer, iter[1])
                           THEN "pointer" ELSE "text"
              /\ hover_at' = Some(loc)
    /\ NoClick
    /\ scroll_seen' = None
    /\ UNCHANGED <<note_label_adj_value, cur_project_item, note_links,
                   note_buffer, visible_child, server_note_header, pass_popover>>
    /\ UNCHANGED <<searchVars, restVars>>

\* A gdk::Event: its type, its button if it has one, its coordinates if it
\* has any (as the location they fall on).  Button events carry a button and
\* coordinates, touch and motion events coordinates only, key events neither.
Events(buf) ==
    [type : {"ButtonPress", "ButtonRelease"},
     button : {Some(GDK_BUTTON_PRIMARY), Some(3)},
     coords : {Some(l) : l \in Locations(buf)}]
    \cup [type : {"TouchEnd", "MotionNotify"},
          button : {None},
          coords : {Some(l) : l \in Locations(buf)}]
    \cup [type : {"KeyPress"}, button : {None}, coords : {None}]

text_note_event_get_position_any_button(evt) ==
    LET is_click == evt.type = "ButtonRelease"
        is_tap == evt.type = "TouchEnd"
    IN  IF is_click \/ is_tap
        THEN IF evt.coords = None THEN None
             ELSE get_iter_at_location(evt.coords[1])
        ELSE None

text_note_event_get_position_if_click_or_tap(evt) ==
    LET is_click == evt.type = "ButtonRelease" /\ evt.button = Some(GDK_BUTTON_PRIMARY)
        is_tap == evt.type = "TouchEnd"
    IN  IF is_click \/ is_tap
        THEN IF evt.coords = None THEN None
             ELSE get_iter_at_location(evt.coords[1])
        ELSE None

RECURSIVE find_link_after_start(_, _, _)
find_link_after_start(ls, offset, i) ==
    IF i > Len(ls) THEN 0
    ELSE IF ls[i].start_offset < offset /\ ls[i].end_offset > offset THEN i
    ELSE find_link_after_start(ls, offset, i + 1)

\* Index of the first link whose range holds the offset, or 0.
RECURSIVE find_link(_, _, _)
find_link(ls, offset, i) ==
    IF i > Len(ls) THEN 0
    ELSE IF ls[i].start_offset <= offset /\ ls[i].end_offset > offset THEN i
    ELSE find_link(ls, offset, i + 1)

\* What the click handler gives to gtk::show_uri_on_window, if anything.
uri_shown(evt) ==
    LET iter == text_note_event_get_position_if_click_or_tap(evt)
    IN  IF iter # None /\ iter_is_link(note_buffer, iter[1])
        THEN LET k == find_link(note_links, iter[1], 1)
             IN  IF k # 0 THEN Some(note_links[k].url) ELSE None
        ELSE None

TextViewEventAfter ==
    /\ \E evt \in Events(note_buffer) :
          /\ note_event' = Some(evt)
          /\ opened' = uri_shown(evt)
    /\ scroll_seen' = None
    /\ hover_at' = None
    /\ UNCHANGED <<note_label_adj_value, cur_project_item, note_links,
                   note_buffer, cursor, visible_child, server_note_header,
                   pass_popover>>
    /\ UNCHANGED <<searchVars, restVars>>

NextNote ==
    \/ ProjectItemSelected
    \/ UpdateNoteScroll
    \/ ActivateLink
    \/ ViewServerNote
    \/ ServerNoteBack
    \/ TextViewMoveCursor
    \/ TextViewEventAfter


(***************************************************************************)
(* The project badge.  The label "HU" is fitted to three quarters of the   *)
(* badge's width; the fitted size is cached with the width it was          *)
(* computed for.                                                           *)
(***************************************************************************)
\* context.text_extents("HU").width at the given font size, times five:
\* the label is 1.4 font sizes wide.
text_extents_width_x5(font_size) == 7 * font_size

\* The while loop of compute_font_size: size is the local, font the size
\* in effect on the context, width_x4 four times the width to fill.
RECURSIVE compute_font_size_loop(_, _, _)
compute_font_size_loop(size, font, width_x4) ==
    IF 4 * text_extents_width_x5(font) < 5 * width_x4
    THEN compute_font_size_loop(size + 1, size, width_x4)
    ELSE [size |-> size, font |-> font]

\* Returns the size and the font size it leaves on the context.
compute_font_size(width_x4) == compute_font_size_loop(5, 5, width_x4)

BadgeWidths == 0..MaxBadgeWidth

InitBadge ==
    /\ font_size_for_width = None
    /\ allocation_width = 0
    /\ badge_drawn = None

\* The drawing area is allocated another width.
BadgeResize ==
    /\ \E w \in BadgeWidths : allocation_width' = w
    /\ UNCHANGED <<font_size_for_width, badge_drawn>>
    /\ UNCHANGED notBadge

cache_hit_any_width(cache, w) == cache # None

cache_hit(cache, w) == cache # None /\ cache[1][1] = w

\* Msg::UpdateDrawBuffer.
UpdateDrawBuffer ==
    LET c == compute_font_size(3 * allocation_width)
    IN  /\ IF cache_hit(font_size_for_width, allocation_width)
           THEN /\ badge_drawn' = Some([width |-> allocation_width,
                                        computed |-> FALSE,
                                        font |-> font_size_for_width[1][2]])
                /\ UNCHANGED font_size_for_width
           ELSE /\ font_size_for_width' = Some(<<allocation_width, c.size>>)
                /\ badge_drawn' = Some([width |-> allocation_width,
                                        computed |-> TRUE,
                                        font |-> c.font])
        /\ UNCHANGED allocation_width
        /\ UNCHANGED notBadge

NextBadge ==
    \/ BadgeResize
    \/ UpdateDrawBuffer

(***************************************************************************)
(* The server dialog.  A server row here is the part of the row the        *)
(* dialog's group and key handling decide.                                 *)
(***************************************************************************)
ServerRow(id, group, key, filename) ==
    [id |-> id, group_name |-> group, auth_key |-> key,
     auth_key_filename |-> filename]

KeyFileName == <<"k">>

KeyData == <<1, 2>>

\* The servers the dialog is opened for; None adds a server.
DialogServers ==
    { None,
      Some(ServerRow(1, None, None, None)),
      Some(ServerRow(2, Some(<<"g">>), Some(KeyData), Some(KeyFileName))) }

\* What the group control can answer to get_active_text().
GroupTexts == { None, Some(EmptyStr), Some(<<"g">>), Some(<<" ">>) }

\* What the file chooser and the file system answer when a file is picked:
\* the path's file name and the file's contents, if any.
PickedFiles ==
    { None,
      Some([fname |-> None, contents |-> Some(KeyData)]),
      Some([fname |-> Some(KeyFileName), contents |-> None]),
      Some([fname |-> Some(KeyFileName), contents |-> Some(KeyData)]),
      Some([fname |-> Some(<<"l">>), contents |-> Some(<<3>>)]) }

update_auth_file(filename) == IF filename # None THEN "file" ELSE "no_file"

InitDialog(server) ==
    /\ server_id = IF server = None THEN None ELSE Some(server[1].id)
    /\ group_name = IF server = None THEN None ELSE server[1].group_name
    /\ group_active_text = None
    /\ auth_key_filename =
          IF server = None THEN None ELSE server[1].auth_key_filename
    /\ auth_key = IF server = None THEN None ELSE server[1].auth_key
    /\ auth_key_stack = update_auth_file(auth_key_filename)
    /\ written_file = None
    /\ saved_server = None

\* Msg::GotGroups: the group control is filled and its text set.
GotGroups ==
    /\ \E t \in GroupTexts : group_active_text' = t
    /\ written_file' = None
    /\ UNCHANGED <<server_id, group_name, auth_key_filename, auth_key,
                   auth_key_stack, saved_server>>
    /\ UNCHANGED notDialog

\* Msg::RemoveAuthFile.
RemoveAuthFile ==
    /\ auth_key_filename' = None
    /\ auth_key_stack' = update_auth_file(auth_key_filename')
    /\ written_file' = None
    /\ UNCHANGED <<server_id, group_name, group_active_text, auth_key,
                   saved_server>>
    /\ UNCHANGED notDialog

\* Msg::AuthFilePicked.
AuthFilePicked ==
    /\ \E picked \in PickedFiles :
          IF picked # None /\ picked[1].fname # None /\ picked[1].contents # None
          THEN /\ auth_key_filename' = picked[1].fname
               /\ auth_key' = picked[1].contents
               /\ auth_key_stack' = update_auth_file(auth_key_filename')
          ELSE UNCHANGED <<auth_key_filename, auth_key, auth_key_stack>>
    /\ written_file' = None
    /\ UNCHANGED <<server_id, group_name, group_active_text, saved_server>>
    /\ UNCHANGED notDialog

write_auth_key(key, filename) ==
    IF key # None /\ filename # None
    THEN Some([name |-> filename[1], data |-> key[1]])
    ELSE None

\* Msg::SaveAuthFile, the folder chosen and Save pressed.
SaveAuthFile ==
    /\ written_file' = write_auth_key(auth_key, auth_key_filename)
    /\ UNCHANGED <<server_id, group_name, group_active_text, auth_key_filename,
                   auth_key, auth_key_stack, saved_server>>
    /\ UNCHANGED notDialog

stored_group_as_entered(new_group) == new_group

\* new_group.as_ref().map(|s| s.as_str()).filter(|s| !s.is_empty())
stored_group(new_group) ==
    IF new_group # None /\ new_group[1] # EmptyStr THEN new_group ELSE None

\* The id of a row inserted by the dialog.
NewServerId == 9

\* Msg::OkPressed: update_server, with the write its closure makes.
OkPressed ==
    /\ saved_server' =
          Some(ServerRow(IF server_id # None THEN server_id[1] ELSE NewServerId,
                         stored_group(group_active_text),
                         auth_key, auth_key_filename))
    /\ written_file' = None
    /\ UNCHANGED <<server_id, group_name, group_active_text, auth_key_filename,
                   auth_key, auth_key_stack>>
    /\ UNCHANGED notDialog

\* Msg::ServerUpdated: meant for the parent.
ServerUpdated ==
    /\ written_file' = None
    /\ UNCHANGED <<server_id, group_name, group_active_text, auth_key_filename,
                   auth_key, auth_key_stack, saved_server>>
    /\ UNCHANGED notDialog

NextDialog ==
    \/ GotGroups
    \/ RemoveAuthFile
    \/ AuthFilePicked
    \/ SaveAuthFile
    \/ OkPressed
    \/ ServerUpdated

(***************************************************************************)
(* The project list.  Messages are handled one at a time from the widget's *)
(* event stream; a message a handler emits joins the stream at its end.    *)
(***************************************************************************)
Project(id, name) == [id |-> id, name |-> name]

\* The projects of the database, in the order load_projects gives them
\* (by name), and the lists a fetch can answer with.
AllProjects == << Project(2, <<"a">>), Project(1, <<"b">>) >>

ProjectListings ==
    { <<>>, <<AllProjects[1]>>, <<AllProjects[2]>>, AllProjects }

\* Ids another widget may ask to select.
ProjectIds == {1, 2, 3}

Yes == "Yes"

No == "No"

MsgProjectActivated(project, update_parents, by_list) ==
    [type |-> "ProjectActivated", project |-> project,
     update_parents |-> update_parents, by_list |-> by_list]

MsgGotProjects(prjs) == [type |-> "GotProjects", prjs |-> prjs]

MsgProjectSelectedFromElsewhere(pid) ==
    [type |-> "ProjectSelectedFromElsewhere", pid |-> pid]

MsgProjectListChanged == [type |-> "ProjectListChanged"]

\* projects.iter().find(|p| p.id == pid)
RECURSIVE find_project(_, _, _)
find_project(prjs, pid, i) ==
    IF i > Len(prjs) THEN None
    ELSE IF prjs[i].id = pid THEN Some(prjs[i])
    ELSE find_project(prjs, pid, i + 1)

InitList ==
    /\ projects = <<>>
    /\ active_project_id = None
    /\ children_widgets = <<>>
    /\ stream = <<>>
    /\ fetches = 1

Sent(m) ==
    /\ Len(stream) < MaxSent
    /\ stream' = Append(stream, m)

\* The sql thread answers a fetch: the channel emits Msg::GotProjects.
ProjectsLoaded ==
    /\ fetches > 0
    /\ fetches' = fetches - 1
    /\ \E prjs \in ProjectListings : Sent(MsgGotProjects(prjs))
    /\ UNCHANGED <<projects, active_project_id, children_widgets>>
    /\ UNCHANGED notList

\* A badge of the list is activated.
BadgeActivated ==
    /\ \E i \in 1..Len(children_widgets) :
          Sent(MsgProjectActivated(children_widgets[i], Yes, FALSE))
    /\ UNCHANGED <<projects, active_project_id, children_widgets, fetches>>
    /\ UNCHANGED notList

\* Another widget sends Msg::ProjectSelectedFromElsewhere or
\* Msg::ProjectListChanged.
SentFromElsewhere ==
    /\ \/ \E pid \in ProjectIds : Sent(MsgProjectSelectedFromElsewhere(pid))
       \/ /\ fetches < MaxFetches
          /\ \A i \in 1..Len(stream) : stream[i] # MsgProjectListChanged
          /\ Sent(MsgProjectListChanged)
    /\ UNCHANGED <<projects, active_project_id, children_widgets, fetches>>
    /\ UNCHANGED notList

\* Msg::ProjectActivated.
ProjectActivated ==
    /\ stream # <<>>
    /\ Head(stream).type = "ProjectActivated"
    /\ active_project_id' = Some(Head(stream).project.id)
    /\ stream' = Tail(stream)
    /\ UNCHANGED <<projects, children_widgets, fetches>>
    /\ UNCHANGED notList

update_projects_list_first_always(prjs, active) ==
    IF prjs # <<>>
    THEN <<MsgProjectActivated(prjs[1], Yes, TRUE)>>
    ELSE <<>>

\* The messages update_projects_list emits.
update_projects_list(prjs, active) ==
    IF active # None /\ find_project(prjs, active[1], 1) # None
    THEN <<MsgProjectActivated(find_project(prjs, active[1], 1)[1], No, TRUE)>>
    ELSE IF prjs # <<>>
    THEN <<MsgProjectActivated(prjs[1], Yes, TRUE)>>
    ELSE <<>>

\* Msg::GotProjects.
GotProjects ==
    /\ stream # <<>>
    /\ Head(stream).type = "GotProjects"
    /\ projects' = Head(stream).prjs
    /\ children_widgets' = projects'
    /\ stream' = Tail(stream) \o update_projects_list(projects', active_project_id)
    /\ UNCHANGED <<active_project_id, fetches>>
    /\ UNCHANGED notList

\* Msg::ProjectSelectedFromElsewhere.
ProjectSelectedFromElsewhere ==
    /\ stream # <<>>
    /\ Head(stream).type = "ProjectSelectedFromElsewhere"
    /\ LET pid == Head(stream).pid
           prj == find_project(projects, pid, 1)
       IN  IF prj # None
           THEN /\ stream' = Append(Tail(stream),
                                    MsgProjectActivated(prj[1], No, FALSE))
                /\ active_project_id' = Some(pid)
           ELSE /\ stream' = Tail(stream)
                /\ UNCHANGED active_project_id
    /\ UNCHANGED <<projects, children_widgets, fetches>>
    /\ UNCHANGED notList

\* Msg::ProjectListChanged: fetch_projects.
ProjectListChanged ==
    /\ stream # <<>>
    /\ Head(stream).type = "ProjectListChanged"
    /\ stream' = Tail(stream)
    /\ fetches' = fetches + 1
    /\ UNCHANGED <<projects, active_project_id, children_widgets>>
    /\ UNCHANGED notList

NextList ==
    \/ ProjectsLoaded
    \/ BadgeActivated
    \/ SentFromElsewhere
    \/ ProjectActivated
    \/ GotProjects
    \/ ProjectSelectedFromElsewhere
    \/ ProjectListChanged

(***************************************************************************)
(* The command-line history: one line per command, a line being the        *)
(* command or a tag, an id and the command separated by semicolons.        *)
(***************************************************************************)
LinkedItem(tag, id) == [tag |-> tag, id |-> id]

LinkedItemNone == LinkedItem("None", 0)

Digits == <<"0", "1", "2", "3", "4", "5", "6", "7", "8", "9">>

I32_MAX == 2147483647

\* format!("{}", id) of an i32.
RECURSIVE format_digits(_)
format_digits(n) ==
    IF n < 10 THEN <<Digits[n + 1]>>
    ELSE format_digits(n \div 10) \o <<Digits[(n % 10) + 1]>>

format_i32(id) ==
    IF id < 0 THEN <<"-">> \o format_digits(-id) ELSE format_digits(id)

RECURSIVE digits_value(_, _, _)
digits_value(str, i, acc) ==
    IF i > Len(str) THEN acc
    ELSE digits_value(str, i + 1,
                      acc * 10 + (CHOOSE d \in 1..10 : Digits[d] = str[i]) - 1)

\* str.parse::<i32>().ok(): an optional sign, then at least one digit and
\* nothing but digits, the value within the type's range.
parse_i32(str) ==
    LET signed == str # <<>> /\ str[1] \in {"+", "-"}
        digits == IF signed THEN Tail(str) ELSE str
        value == IF signed /\ str[1] = "-"
                 THEN - digits_value(digits, 1, 0)
                 ELSE digits_value(digits, 1, 0)
    IN  IF /\ digits # <<>>
           /\ \A i \in 1..Len(digits) : \E d \in 1..10 : Digits[d] = digits[i]
           /\ value >= - I32_MAX - 1
           /\ value <= I32_MAX
        THEN Some(value)
        ELSE None

\* The index of the first occurrence of c in str from i on, 0 if none.
RECURSIVE index_of(_, _, _)
index_of(str, c, i) ==
    IF i > Len(str) THEN 0
    ELSE IF str[i] = c THEN i
    ELSE index_of(str, c, i + 1)

\* line.splitn(3, ';').collect()
splitn_3(line) ==
    LET i1 == index_of(line, ";", 1)
        i2 == index_of(line, ";", i1 + 1)
    IN  IF i1 = 0 THEN <<line>>
        ELSE IF i2 = 0
        THEN <<SubSeq(line, 1, i1 - 1), SubSeq(line, i1 + 1, Len(line))>>
        ELSE <<SubSeq(line, 1, i1 - 1), SubSeq(line, i1 + 1, i2 - 1),
               SubSeq(line, i2 + 1, Len(line))>>

parse_history_line(line) ==
    LET elts == splitn_3(line)
        id == IF Len(elts) >= 2 THEN parse_i32(elts[2]) ELSE None
    IN  IF Len(elts) = 3 /\ elts[1] = <<"S">> /\ id # None
        THEN <<elts[3], LinkedItem("ServerId", id[1])>>
        ELSE IF Len(elts) = 3 /\ elts[1] = <<"P">> /\ id # None
        THEN <<elts[3], LinkedItem("ProjectPoiId", id[1])>>
        ELSE IF Len(elts) = 3 /\ elts[1] = <<"S", "P">> /\ id # None
        THEN <<elts[3], LinkedItem("ServerPoiId", id[1])>>
        ELSE <<line, LinkedItemNone>>

serialize_history_line(line) ==
    CASE line[2].tag = "None" -> line[1]
      [] line[2].tag = "ServerId" ->
            <<"S", ";">> \o format_i32(line[2].id) \o <<";">> \o line[1]
      [] line[2].tag = "ProjectPoiId" ->
            <<"P", ";">> \o format_i32(line[2].id) \o <<";">> \o line[1]
      [] line[2].tag = "ServerPoiId" ->
            <<"S", "P", ";">> \o format_i32(line[2].id) \o <<";">> \o line[1]

\* lines.join("\n")
RECURSIVE join(_, _)
join(lines, i) ==
    IF i > Len(lines) THEN <<>>
    ELSE IF i = Len(lines) THEN lines[i]
    ELSE lines[i] \o <<"\n">> \o join(lines, i + 1)

\* BufRead::lines of the file's contents: the text between line feeds,
\* without a last empty line.
RECURSIVE file_lines(_)
file_lines(contents) ==
    LET nl == index_of(contents, "\n", 1)
    IN  IF contents = <<>> THEN <<>>
        ELSE IF nl = 0 THEN <<contents>>
        ELSE <<SubSeq(contents, 1, nl - 1)>>
               \o file_lines(SubSeq(contents, nl + 1, Len(contents)))

\* latest.0.trim().is_empty()
is_blank(str) == \A i \in 1..Len(str) : str[i] \in {" ", "\t"}

\* write_history: how the call ends and the contents it leaves in the file.
write_history(file, orig_history, latest, limit) ==
    LET len == Len(orig_history)
        additional_lines == IF is_blank(latest[1]) THEN 0 ELSE 1
        start_index == IF len + additional_lines > limit
                       THEN len + additional_lines - limit
                       ELSE 0
        history == SubSeq(orig_history, start_index + 1, len) \o <<latest>>
    IN  IF len > 0 /\ orig_history[len] = latest
        THEN [outcome |-> "unchanged", file |-> file]
        ELSE IF start_index > len
        THEN [outcome |-> "panic", file |-> file]
        ELSE [outcome |-> "written",
              file |-> join([i \in 1..Len(history) |->
                                serialize_history_line(history[i])], 1)]

\* Commands and the items they are linked to.
Commands ==
    { <<"l">>, <<"m">>, <<" ">>, <<"S", ";", "1", ";", "l">>, <<"a", ";", "b">> }

LinkedItems ==
    { LinkedItemNone, LinkedItem("ServerId", 1), LinkedItem("ProjectPoiId", 12),
      LinkedItem("ServerPoiId", -3) }

HistoryEntries ==
    { <<<<"l">>, LinkedItemNone>>, <<<<"m">>, LinkedItem("ServerId", 1)>>,
      <<<<" ">>, LinkedItemNone>>, <<<<"a", ";", "b">>, LinkedItem("ServerPoiId", -3)>> }

Histories == UNION { [1..n -> HistoryEntries] : n \in 0..MaxHistory }

InitHistory ==
    /\ history_file = <<>>
    /\ write_call = None
    /\ round_trip = None

\* A command has been run: the history is written with it as latest entry.
WriteHistory ==
    /\ \E orig \in Histories, latest \in HistoryEntries, limit \in 0..MaxLimit :
          LET r == write_history(history_file, orig, latest, limit)
          IN  /\ history_file' = r.file
              /\ write_call' = Some([orig |-> orig, latest |-> latest,
                                     limit |-> limit, outcome |-> r.outcome])
    /\ round_trip' = None
    /\ UNCHANGED notHistory

\* One line goes to the file and is read back.
LineRoundTrip ==
    /\ \E s \in Commands, item \in LinkedItems :
          round_trip' = Some([line |-> <<s, item>>,
                              back |-> parse_history_line(
                                          serialize_history_line(<<s, item>>))])
    /\ write_call' = None
    /\ UNCHANGED history_file
    /\ UNCHANGED notHistory

NextHistory ==
    \/ WriteHistory
    \/ LineRoundTrip

InitRest == InitBadge /\ InitDialog(None) /\ InitList /\ InitHistory

(***************************************************************************)
(* The search view.                                                        *)
(***************************************************************************)
InitView(its) ==
    /\ items = its
    /\ width \in Widths
    /\ theme \in Themes
    /\ style_classes = {}
    /\ links = <<>>
    /\ action_buttons = <<>>
    /\ buttons = <<>>
    /\ boxes = <<>>
    /\ frame = None
    /\ pressed_item = None
    /\ phase = "idle"
    /\ last_event = None
    /\ host = None
    /\ presses = 0

\* The query result arrives: the item collection is replaced.
GotItems(catalog) ==
    /\ \E its \in Results(catalog, MaxItems) : items' = its
    /\ last_event' = None
    /\ host' = None
    /\ UNCHANGED <<width, theme, style_classes, links, action_buttons, buttons,
                   boxes, frame, pressed_item, phase, presses>>
    /\ UNCHANGED <<noteVars, restVars>>

\* The drawing area is allocated another width.
Resize ==
    /\ \E w \in Widths : width' = w
    /\ last_event' = None
    /\ host' = None
    /\ UNCHANGED <<items, theme, style_classes, links, action_buttons, buttons,
                   boxes, frame, pressed_item, phase, presses>>
    /\ UNCHANGED <<noteVars, restVars>>

PaintWith_forgets_press(st) ==
    /\ links' = st.links
    /\ action_buttons' = st.action_buttons
    /\ buttons' = st.buttons
    /\ boxes' = st.boxes
    /\ style_classes' = st.classes
    /\ frame' = Some([items |-> items, width |-> width, theme |-> theme,
                      pressed |-> pressed_item])
    /\ phase' = IF phase = "pressed" THEN "shown" ELSE phase
    /\ pressed_item' = None
    /\ last_event' = None
    /\ host' = None
    /\ UNCHANGED <<items, width, theme, presses>>
    /\ UNCHANGED <<noteVars, restVars>>

PaintWith(st) ==
    /\ links' = st.links
    /\ action_buttons' = st.action_buttons
    /\ buttons' = st.buttons
    /\ boxes' = st.boxes
    /\ style_classes' = st.classes
    /\ frame' = Some([items |-> items, width |-> width, theme |-> theme,
                      pressed |-> pressed_item])
    /\ phase' = IF phase = "pressed" THEN "shown" ELSE phase
    /\ last_event' = None
    /\ host' = None
    /\ UNCHANGED <<items, width, theme, pressed_item, presses>>
    /\ UNCHANGED <<noteVars, restVars>>

\* One paint pass, from the draw signal to its return.
Paint ==
    PaintWith(paint(style_classes, links, action_buttons, items, theme, width,
                    pressed_item))

phase_after_press_skip_paint == "shown"

phase_after_press == "pressed"

\* Pointer-down at (px, py), resolved against the current region table.
PointerDownAt(px, py) ==
    LET a == resolve(px, py, links, action_buttons)
    IN  /\ last_event' = Some([x |-> px, y |-> py, action |-> a])
        /\ IF a.type = "InvokeItemAction"
           THEN /\ pressed_item' = Some(a.item)
                /\ phase' = phase_after_press
                /\ host' = None
           ELSE /\ host' = IF a.type = "None" THEN None
                           ELSE Some([action |-> a, ok |-> TRUE])
                /\ UNCHANGED <<pressed_item, phase>>
        /\ UNCHANGED <<items, width, theme, style_classes, links,
                       action_buttons, buttons, boxes, frame>>
        /\ UNCHANGED <<noteVars, restVars>>

PointerDown ==
    /\ \E p \in PointerCandidates(links, action_buttons) : PointerDownAt(p[1], p[2])
    /\ UNCHANGED presses

pressed_after_dispatch_keep(ok) == IF ok THEN None ELSE pressed_item

pressed_after_dispatch(ok) == None

\* The action of the pressed item is handed to the application, after the
\* paint that showed it pressed; it succeeds or fails.
Dispatch ==
    /\ phase = "shown"
    /\ \E ok \in BOOLEAN :
          /\ host' = Some([action |-> InvokeItemAction(pressed_item[1]), ok |-> ok])
          /\ pressed_item' = pressed_after_dispatch(ok)
    /\ phase' = "idle"
    /\ last_event' = None
    /\ UNCHANGED <<items, width, theme, style_classes, links, action_buttons,
                   buttons, boxes, frame, presses>>
    /\ UNCHANGED <<noteVars, restVars>>

Init == InitView(<<>>) /\ InitNote /\ InitRest

Next ==
    \/ GotItems(ViewCatalog)
    \/ Resize
    \/ Paint
    \/ PointerDown
    \/ Dispatch

Spec == Init /\ [][Next]_vars

\* The paint pass and the resolver over every item sequence.
InitPaint ==
    /\ InitNote
    /\ InitRest
    /\ \E its \in Results(ItemCatalog, MaxItems) : InitView(its)

NextPaint ==
    \/ Paint
    \/ PointerDown
    \/ Dispatch

PaintSpec == InitPaint /\ [][NextPaint]_vars

InitNoteView ==
    /\ InitNote
    /\ InitRest
    /\ InitView(<<>>)
    /\ width = 400
    /\ theme.margin.top = 0

NoteSpec == InitNoteView /\ [][NextNote]_vars

\* The badge on its own, the other widgets as constructed.
BadgeSpec == InitNoteView /\ [][NextBadge]_vars

\* The server dialog on its own, opened to add a server or to edit one.
InitDialogView ==
    /\ InitView(<<>>)
    /\ width = 400
    /\ theme.margin.top = 0
    /\ InitNote
    /\ InitBadge
    /\ InitList
    /\ InitHistory
    /\ \E server \in DialogServers : InitDialog(server)

DialogSpec == InitDialogView /\ [][NextDialog]_vars

\* The project list on its own.
ListSpec == InitNoteView /\ [][NextList]_vars

\* The history file on its own.
HistorySpec == InitNoteView /\ [][NextHistory]_vars


(***************************************************************************)
(* Properties of the region table and of the resolver.                     *)
(***************************************************************************)
\* The regions in resolution order, links first, each with what it stands
\* for: the payload of a link, the item of a button.
TableRegions(ls, abs) ==
    [k \in 1..(Len(ls) + Len(abs)) |->
        IF k <= Len(ls)
        THEN [area |-> ls[k].area, kind |-> "link", payload |-> ls[k].payload]
        ELSE [area |-> abs[k - Len(ls)].area, kind |-> "button",
              item |-> abs[k - Len(ls)].item]]

Inside(area, px, py) ==
    /\ area.x <= px /\ px < area.x + area.width
    /\ area.y <= py /\ py < area.y + area.height

\* The action a references the region r.
References(a, r) ==
    IF r.kind = "link"
    THEN \/ a.type = "OpenLink" /\ a.url = r.payload
         \/ a.type = "RevealSecret" /\ PASS_SCHEME \o a.value = r.payload
    ELSE a.type = "InvokeItemAction" /\ a.item = r.item

\* What the first region containing (px, py) asks for.
FirstHit(px, py, ls, abs) ==
    LET all == TableRegions(ls, abs)
        hits == {k \in 1..Len(all) : Inside(all[k].area, px, py)}
    IN  IF hits = {} THEN 0
        ELSE CHOOSE k \in hits : \A j \in hits : k <= j

ProbePoints(ls, abs) ==
    PointerCandidates(ls, abs)
    \cup UNION {{a.x - 1, a.x, a.x + a.width - 1, a.x + a.width}
                \X {a.y - 1, a.y, a.y + a.height - 1, a.y + a.height} :
                a \in Regions(ls, abs)}

AnswersFirstHit(a, px, py, ls, abs) ==
    LET k == FirstHit(px, py, ls, abs)
    IN  IF k = 0 THEN a = NoAction
        ELSE References(a, TableRegions(ls, abs)[k])

\* C1: resolve tests the links in insertion order, then the action buttons
\* in insertion order, and answers with the first region containing the
\* pointer (x <= px < x + width, y <= py < y + height); the earliest of
\* several overlapping regions wins, and a pointer in no region gives None.
\* Checked for the pointer-down just handled and, whenever a table has just
\* been painted, for every corner, edge and centre of its regions.
C1_FirstRegionWins ==
    /\ last_event = None =>
          \A p \in ProbePoints(links, action_buttons) :
              AnswersFirstHit(resolve(p[1], p[2], links, action_buttons),
                              p[1], p[2], links, action_buttons)
    /\ last_event # None =>
          AnswersFirstHit(last_event[1].action, last_event[1].x, last_event[1].y,
                          links, action_buttons)

\* A pointer-down where a link and an action button overlap was answered
\* with the link.
C1_Witness ==
    /\ last_event # None
    /\ LET all == TableRegions(links, action_buttons)
           hits == {k \in 1..Len(all) :
                      Inside(all[k].area, last_event[1].x, last_event[1].y)}
       IN  /\ Cardinality(hits) >= 2
           /\ \E k \in hits : all[k].kind = "button"
           /\ last_event[1].action.type = "OpenLink"

\* C2 as stated: resolving the centre of every region of the table answers
\* with an action that references the region.
C2_EveryCentreResolves ==
    \A k \in 1..(Len(links) + Len(action_buttons)) :
        LET r == TableRegions(links, action_buttons)[k]
            c == center(r.area)
        IN  References(resolve(c[1], c[2], links, action_buttons), r)

\* C2, amended: resolving the centre of a region of non-zero area, when no
\* earlier region of the resolution order contains that centre, answers with
\* an action that references the region.
C2_CentreResolvesUnlessEmptyOrCovered ==
    \A k \in 1..(Len(links) + Len(action_buttons)) :
        LET all == TableRegions(links, action_buttons)
            c == center(all[k].area)
        IN  (/\ all[k].area.width > 0
             /\ all[k].area.height > 0
             /\ \A j \in 1..(k - 1) : ~Inside(all[j].area, c[1], c[2]))
            => References(resolve(c[1], c[2], links, action_buttons), all[k])

\* The table holds a link of no width, and a pointer-down at the centre of a
\* button was answered with that button's item.
C2_Witness ==
    /\ \E i \in 1..Len(links) : links[i].area.width = 0
    /\ last_event # None
    /\ \E j \in 1..Len(action_buttons) :
          /\ center(action_buttons[j].area) = <<last_event[1].x, last_event[1].y>>
          /\ last_event[1].action = InvokeItemAction(action_buttons[j].item)

NotProject(item) == item.kind # "Project"

IsWebsite(item) == item.kind = "ServerWebsite"

\* C4: after a paint pass action_buttons holds one entry for every item that
\* is not a Project and none for a Project, in the order of the items, each
\* entry carrying its item.
C4_OneButtonPerNonProject ==
    frame # None =>
        [i \in 1..Len(action_buttons) |-> action_buttons[i].item]
            = SelectSeq(frame[1].items, NotProject)

\* A project row and a server row were painted: one entry, the server's.
C4_Witness ==
    /\ frame # None
    /\ Len(frame[1].items) = 2
    /\ frame[1].items[1].kind = "Project"
    /\ frame[1].items[2].kind = "Server"
    /\ Len(action_buttons) = 1

\* C5: after a paint pass links holds one entry per ServerWebsite item, with
\* that website's url as payload, in item order, and nothing else.
C5_OneLinkPerWebsite ==
    frame # None =>
        [i \in 1..Len(links) |-> links[i].payload]
            = LET sites == SelectSeq(frame[1].items, IsWebsite)
              IN  [i \in 1..Len(sites) |-> sites[i].url]

\* A server row and a website row were painted: one link, the website's url.
C5_Witness ==
    /\ frame # None
    /\ Len(frame[1].items) = 2
    /\ frame[1].items[1].kind = "Server"
    /\ frame[1].items[2].kind = "ServerWebsite"
    /\ Len(links) = 1
    /\ links[1].payload = HttpsX

\* C9: in a paint pass a button is drawn CHECKED iff its item equals
\* pressed_item; with pressed_item None no button is CHECKED, and over
\* pairwise different items at most one is.
C9_CheckedIffPressed ==
    frame # None =>
        /\ Len(buttons) = Len(action_buttons)
        /\ \A i \in 1..Len(buttons) :
              buttons[i].flags = "CHECKED"
                  <=> frame[1].pressed = <<action_buttons[i].item>>
        /\ frame[1].pressed = None =>
              \A i \in 1..Len(buttons) : buttons[i].flags = "NORMAL"
        /\ (\A i, j \in 1..Len(frame[1].items) :
                i # j => frame[1].items[i] # frame[1].items[j])
              => Cardinality({i \in 1..Len(buttons) : buttons[i].flags = "CHECKED"}) <= 1

\* Two rows were painted with the second one's item pressed: its button is
\* CHECKED, the other NORMAL.
C9_Witness ==
    /\ frame # None
    /\ Len(buttons) = 2
    /\ frame[1].pressed = <<action_buttons[2].item>>
    /\ buttons[2].flags = "CHECKED"
    /\ buttons[1].flags = "NORMAL"


\* The row (index into the painted items) of the k-th item accepted by
\* Keep.
RowOfKth(its, Keep(_), k) ==
    CHOOSE i \in 1..Len(its) :
        /\ Keep(its[i])
        /\ Cardinality({j \in 1..i : Keep(its[j])}) = k

RowOrigin(i) == (i - 1) * SEARCH_RESULT_WIDGET_HEIGHT

\* The style's margin for the class a row of this kind is drawn with.
RowMargin(th, item) ==
    IF item.kind \in {"Server", "ProjectNote", "ProjectPoi", "Project"}
    THEN th.margin ELSE th.child_margin

\* C15: in a paint pass row i starts at (i - 1) times the row height, the
\* box of a row ends where the next row starts, and the box, the action
\* button and the link of row i lie at offsets from that origin that the
\* style metrics fix, whatever the kinds and contents of the items (empty
\* fields included).
C15_RowsAtFixedHeight ==
    frame # None =>
        /\ \A k \in 1..Len(boxes) :
              LET its == frame[1].items
                  th == frame[1].theme
                  i == RowOfKth(its, NotProject, k)
                  m == RowMargin(th, its[i])
              IN  /\ boxes[k].y = RowOrigin(i) + m.top
                  /\ boxes[k].y + boxes[k].height = RowOrigin(i + 1)
                  /\ action_buttons[k].area.y
                        = RowOrigin(i) + th.padding.top + m.top
        /\ \A n \in 1..Len(links) :
              LET its == frame[1].items
                  th == frame[1].theme
                  i == RowOfKth(its, IsWebsite, n)
                  m == RowMargin(th, its[i])
              IN  links[n].area.y
                    = RowOrigin(i) + m.top + th.line_h + 2 * th.padding.top
        /\ \A q \in 2..Len(boxes) :
              LET its == frame[1].items
                  th == frame[1].theme
                  i == RowOfKth(its, NotProject, q)
                  h == RowOfKth(its, NotProject, q - 1)
              IN  i = h + 1 =>
                      boxes[q].y - boxes[q - 1].y
                        = SEARCH_RESULT_WIDGET_HEIGHT
                            + RowMargin(th, its[i]).top - RowMargin(th, its[h]).top

\* A server and, under it, a website without url were painted under a style
\* with a top margin: the second box starts one row height below the first.
C15_Witness ==
    /\ frame # None
    /\ frame[1].theme.margin.top > 0
    /\ Len(frame[1].items) = 2
    /\ frame[1].items[1].kind = "Server"
    /\ frame[1].items[2].kind = "ServerWebsite"
    /\ frame[1].items[2].url = EmptyStr
    /\ Len(boxes) = 2
    /\ boxes[2].y - boxes[1].y = SEARCH_RESULT_WIDGET_HEIGHT

ChildKinds ==
    {"ServerWebsite", "ServerDatabase", "ServerExtraUserAccount",
     "ServerNote", "ServerPoi", "ServerLink"}

\* The rows of the last paint pass that have a box: row k is the k-th item
\* that is not a Project, with its box and its action button.
BoxRows == 1..Len(boxes)

\* C17 as stated: the box of a child row is inset strictly more, left and
\* right, than the box of a server row painted in the same pass.
C17_ChildBoxInsetMore ==
    frame # None =>
        \A c, p \in BoxRows :
            (action_buttons[c].item.kind \in ChildKinds
                /\ action_buttons[p].item.kind = "Server")
            => /\ boxes[c].x > boxes[p].x
               /\ boxes[c].x + boxes[c].width < boxes[p].x + boxes[p].width

\* C17, amended: every box is inset by the style's margin for the class of
\* its row plus the same offset, LEFT_RIGHT_MARGIN, at every depth; the box
\* of a child row is inset more than the box of a server row by what the
\* margin of search_view_child exceeds the margin of search_view_parent,
\* which may be nothing.
C17_BoxInsetIsMarginPlusSameOffset ==
    frame # None =>
        /\ Len(boxes) = Len(action_buttons)
        /\ \A k \in BoxRows :
              LET th == frame[1].theme
                  m == IF action_buttons[k].item.kind \in ChildKinds
                       THEN th.child_margin ELSE th.margin
              IN  /\ boxes[k].x = m.left + 150
                  /\ boxes[k].x + boxes[k].width = frame[1].width - m.right - 150

\* A server and a child row painted under a style that gives both classes
\* the same margin: their boxes are inset alike.
C17_Witness ==
    /\ frame # None
    /\ frame[1].theme.child_margin = frame[1].theme.margin
    /\ \E c, p \in BoxRows :
          /\ action_buttons[c].item.kind \in ChildKinds
          /\ action_buttons[p].item.kind = "Server"
          /\ boxes[c].x = boxes[p].x
          /\ boxes[c].width = boxes[p].width


(***************************************************************************)
(* Properties of the view: paint passes interleaved with pointer events,   *)
(* new query results and resizes.                                          *)
(***************************************************************************)
\* The table a paint pass over the inputs f builds from nothing.
FreshTable(f) == paint({}, <<>>, <<>>, f.items, f.theme, f.width, f.pressed)

\* C3: at every moment the region table is the one the most recently
\* completed paint pass built, entry for entry, with nothing left from an
\* earlier pass, and a pointer event is resolved against that table.
C3_TableIsLatestPaint ==
    /\ frame = None => links = <<>> /\ action_buttons = <<>>
    /\ frame # None =>
          /\ links = FreshTable(frame[1]).links
          /\ action_buttons = FreshTable(frame[1]).action_buttons
          /\ last_event # None =>
                last_event[1].action
                    = resolve(last_event[1].x, last_event[1].y,
                              FreshTable(frame[1]).links,
                              FreshTable(frame[1]).action_buttons)

\* A pointer event hit a region of a table painted for two rows at another
\* width than the current one, while the view now holds other items.
C3_Witness ==
    /\ frame # None
    /\ frame[1].width # width
    /\ frame[1].items # items
    /\ Len(frame[1].items) = 2
    /\ last_event # None
    /\ last_event[1].action.type # "None"

SameRow(a, b) == a.kind = b.kind /\ a.id = b.id

C19_PaintOnlyReads ==
    [][(<<links, action_buttons, buttons, boxes, style_classes, frame>>'
          # <<links, action_buttons, buttons, boxes, style_classes, frame>>)
       => UNCHANGED <<items, width, theme, pressed_item,
                      note_label_adj_value, cursor>>]_vars

\* A paint pass drew a pressed button and pressed_item is still set.
C19_Witness ==
    /\ frame # None
    /\ pressed_item # None
    /\ frame[1].pressed = pressed_item
    /\ frame[1].items = items
    /\ \E i \in 1..Len(buttons) : buttons[i].flags = "CHECKED"


(***************************************************************************)
(* The view under fair scheduling: the main loop runs a queued paint pass  *)
(* and hands over a pending action; the user presses finitely often.       *)
(***************************************************************************)
PointerDownCounted ==
    /\ presses < MaxPresses
    /\ \E p \in PointerCandidates(links, action_buttons) : PointerDownAt(p[1], p[2])
    /\ presses' = presses + 1

\* The items the fair specification moves between.
FairCatalog ==
    << Item("Server", 1, <<"s">>, EmptyStr),
       Item("ServerWebsite", 1, <<"w">>, HttpsX) >>

InitFair == Init /\ width = 400 /\ theme.margin.top = 0

NextFair ==
    \/ GotItems(FairCatalog)
    \/ Paint
    \/ PointerDownCounted
    \/ Dispatch

FairSpec == InitFair /\ [][NextFair]_vars /\ WF_vars(Paint) /\ WF_vars(Dispatch)

NothingShownPressed ==
    /\ pressed_item = None
    /\ frame # None
    /\ frame[1].pressed = None
    /\ \A i \in 1..Len(buttons) : buttons[i].flags = "NORMAL"

C6_SecretNeverOpened ==
    opened # None => ~starts_with(opened[1], PASS_SCHEME)

\* C11: a scroll notification of v against the committed offset c is
\* discarded, c staying, exactly when c - v exceeds 200 and v is below 15;
\* in every other case the committed offset becomes v.
C11_ScrollGuard ==
    [][scroll_seen' # None =>
          LET v == scroll_seen'[1]
              c == note_label_adj_value
          IN  /\ (c - v > 200 /\ v < 15) => note_label_adj_value' = c
              /\ ~(c - v > 200 /\ v < 15) => note_label_adj_value' = v]_vars

\* With 300 committed, a notification of 5 was discarded.
C11_Witness ==
    /\ scroll_seen = Some(5)
    /\ note_label_adj_value = 300

\* The spans of note_links whose range [start_offset, end_offset) holds o.
SpansAt(o) ==
    {k \in 1..Len(note_links) :
        note_links[k].start_offset <= o /\ o < note_links[k].end_offset}

\* C12: on pointer motion the cursor becomes pointer iff the text offset
\* under the pointer lies in [start_offset, end_offset) of a span of the
\* rendered note; it becomes text otherwise, also where the pointer is over
\* no text.
C12_PointerIffInSpan ==
    hover_at # None =>
        /\ cursor \in {"pointer", "text"}
        /\ cursor = "pointer" <=> (hover_at[1] >= 0 /\ SpansAt(hover_at[1]) # {})

\* The pointer moved over the second character of a secret span.
C12_Witness ==
    /\ hover_at = Some(1)
    /\ Len(note_links) = 2
    /\ starts_with(note_links[1].url, PASS_SCHEME)
    /\ cursor = "pointer"

\* A primary-button release or a touch end.
IsClickOrTap(evt) ==
    \/ evt.type = "ButtonRelease" /\ evt.button = Some(1)
    \/ evt.type = "TouchEnd"

\* C13: a click at text offset o dispatches the payload of a span with
\* start_offset <= o < end_offset; when no span holds o (o is a span's
\* end_offset, or lies between spans) or the pointer is over no text,
\* nothing is dispatched.
C13_ClickDispatchesSpanAtOffset ==
    (note_event # None /\ IsClickOrTap(note_event[1])) =>
        LET at == note_event[1].coords
            hit == IF at = None \/ at[1] < 0 THEN {} ELSE SpansAt(at[1])
        IN  /\ hit = {} => opened = None
            /\ hit # {} => /\ opened # None
                           /\ \E k \in hit : note_links[k].url = opened[1]

\* A click on the first character of the second span gave its url.
C13_Witness ==
    /\ note_event # None
    /\ note_event[1].type = "ButtonRelease"
    /\ Len(note_links) = 2
    /\ note_event[1].coords = Some(note_links[2].start_offset)
    /\ opened = Some(HttpsX)

\* C14: a link is dispatched only by a release of the primary button or by
\* a touch end; no press, motion, release of another button or other event
\* dispatches one.
C14_OnlyReleaseOrTouchEndDispatches ==
    opened # None => (note_event # None /\ IsClickOrTap(note_event[1]))

\* A touch end on a span dispatched its link.
C14_Witness ==
    /\ opened # None
    /\ note_event # None
    /\ note_event[1].type = "TouchEnd"

\* C18: handling a pointer motion over the note changes the cursor only: the
\* committed scroll offset, the span list, the current item, pressed_item
\* and the region table stay, and nothing is dispatched.
C18_HoverChangesCursorOnly ==
    [][hover_at' # None =>
          /\ UNCHANGED <<note_label_adj_value, note_links, note_buffer,
                         cur_project_item, pressed_item, links, action_buttons>>
          /\ opened' = None
          /\ host' = host
          /\ pass_popover' = pass_popover]_vars

\* A motion over a span, in a note scrolled to 300.
C18_Witness ==
    /\ hover_at # None
    /\ cursor = "pointer"
    /\ note_label_adj_value = 300
    /\ cur_project_item # None

\* C20: after any sequence of ProjectItemSelected, ViewServerNote and
\* ServerNoteBack, note_links is the span list of the rendering whose buffer
\* the text view holds, with no span of an earlier note; before any note it
\* is empty.
C20_LinksAreThoseOfTheBuffer ==
    /\ note_buffer = EmptyBuffer => note_links = <<>>
    /\ note_buffer # EmptyBuffer =>
          \E c \in NoteContents :
              /\ note_buffer = note_markdown_to_text_buffer(c).buffer
              /\ note_links = note_markdown_to_text_buffer(c).links

\* A server note without links is shown over a project note that has two.
C20_Witness ==
    /\ cur_project_item # None
    /\ cur_project_item[1].kind = "ProjectNote"
    /\ Len(note_markdown_to_text_buffer(cur_project_item[1].contents).links) = 2
    /\ server_note_header.back_visible
    /\ note_buffer # EmptyBuffer
    /\ note_links = <<>>


(***************************************************************************)
(* Properties of the style context across rows.                            *)
(***************************************************************************)
\* C21: drawing any one item of the view leaves the shared style context
\* with exactly the classes it carried before that item was drawn.
C21_ClassesRestoredAfterEachItem ==
    \A i \in 1..Len(items) :
        LET before == [links |-> <<>>, action_buttons |-> <<>>,
                       classes |-> style_classes,
                       buttons |-> <<>>, boxes |-> <<>>]
            after == draw_child(before, theme, width, items[i], RowOrigin(i),
                                pressed_item)
        IN  after.classes = style_classes


(***************************************************************************)
(* Properties of the badge's font-size cache.                              *)
(***************************************************************************)
\* C22: a draw whose allocation width equals the cached width computes
\* nothing and leaves the cache as it is; any other draw computes the size
\* and the cache becomes (current width, computed size).  The cached width
\* is always the width of the latest draw, and a step that is no draw
\* leaves the cache alone.
C22_CacheKeyedOnWidth ==
    /\ [](badge_drawn # None =>
            /\ font_size_for_width # None
            /\ font_size_for_width[1][1] = badge_drawn[1].width)
    /\ [][/\ badge_drawn' = badge_drawn => UNCHANGED font_size_for_width
          /\ badge_drawn' # badge_drawn =>
               /\ badge_drawn'[1].width = allocation_width
               /\ IF /\ font_size_for_width # None
                     /\ font_size_for_width[1][1] = allocation_width
                  THEN /\ ~badge_drawn'[1].computed
                       /\ UNCHANGED font_size_for_width
                  ELSE /\ badge_drawn'[1].computed
                       /\ font_size_for_width' =
                            Some(<<allocation_width,
                                   compute_font_size(3 * allocation_width).size>>)
         ]_vars

\* The badge was drawn from the cache at a width it had been resized back
\* to, the cache holding a size the loop had to search for.
C22_Witness ==
    /\ badge_drawn # None
    /\ ~badge_drawn[1].computed
    /\ badge_drawn[1].width = MaxBadgeWidth
    /\ font_size_for_width[1][2] > 5
    /\ allocation_width = 0

\* C24: the font size in effect on the context when the label is drawn is
\* the cached size, on a draw that computed it as on a draw that read it.
C24_SameFontOnHitAndMiss ==
    badge_drawn # None => badge_drawn[1].font = font_size_for_width[1][2]


(***************************************************************************)
(* Properties of the rows the server dialog writes.                        *)
(***************************************************************************)
\* C23: the group_name of the row a save writes is None or a non-empty
\* string: None when the group control's text is absent or empty, the
\* text otherwise.
C23_NoEmptyGroupStored ==
    [][OkPressed =>
          /\ \/ saved_server'[1].group_name = None
             \/ Len(saved_server'[1].group_name[1]) > 0
          /\ (group_active_text \in {None, Some(EmptyStr)}
                => saved_server'[1].group_name = None)
          /\ (group_active_text \notin {None, Some(EmptyStr)}
                => saved_server'[1].group_name = group_active_text)
      ]_vars

\* A server that had a group was saved with the group control emptied.
C23_Witness ==
    /\ saved_server # None
    /\ saved_server[1].id = 2
    /\ group_name = Some(<<"g">>)
    /\ group_active_text = Some(EmptyStr)
    /\ saved_server[1].group_name = None

\* C28: in every row the dialog writes, auth_key is present exactly when
\* auth_key_filename is.
C28_KeyIffFileName ==
    saved_server # None =>
        (saved_server[1].auth_key # None
            <=> saved_server[1].auth_key_filename # None)


(***************************************************************************)
(* Properties of the note view's scroll tracker.                           *)
(***************************************************************************)
\* C25: after a scroll notification carrying v the committed offset is v,
\* or it exceeds v by more than 200 and v is below 15; the committed
\* offset starts at 0 and only ever changes to the value a notification
\* has just delivered.
C25_ScrollTrackerConsistent ==
    /\ note_label_adj_value = 0
    /\ [](scroll_seen # None =>
            \/ note_label_adj_value = scroll_seen[1]
            \/ /\ note_label_adj_value - scroll_seen[1] > 200
               /\ scroll_seen[1] < 15)
    /\ [][note_label_adj_value' # note_label_adj_value
            => scroll_seen' = Some(note_label_adj_value')]_vars

\* A notification of 5 arrived while the tracker held 280, and the tracker
\* still holds 280.
C25_Witness ==
    /\ scroll_seen = Some(5)
    /\ note_label_adj_value = 280


(***************************************************************************)
(* Properties of the project list's selection.                             *)
(***************************************************************************)
HasId(prjs, pid) == \E i \in 1..Len(prjs) : prjs[i].id = pid

\* No GotProjects message waits in the stream, and no message that a
\* GotProjects handler emitted.
GotProjectsSettled ==
    \A i \in 1..Len(stream) :
        /\ stream[i].type # "GotProjects"
        /\ stream[i].type = "ProjectActivated" => ~stream[i].by_list

\* C26: once every GotProjects message and every message it emitted have been
\* handled, active_project_id is None or the id of a project of the
\* current list.
C26_ActiveProjectInList ==
    GotProjectsSettled =>
        \/ active_project_id = None
        \/ HasId(projects, active_project_id[1])

\* C27: handling GotProjects with an empty list emits nothing; with a
\* non-empty list it emits exactly one ProjectActivated, for the active
\* project with UpdateParents::No if its id is in the list and for the
\* list's first project with UpdateParents::Yes otherwise.  Handling
\* ProjectSelectedFromElsewhere with an id that is not in the list emits
\* nothing and leaves active_project_id as it is.
C27_OneActivationPerList ==
    [][/\ GotProjects =>
            LET prjs == Head(stream).prjs
                emitted == SubSeq(stream', Len(stream), Len(stream'))
            IN  /\ prjs = <<>> => emitted = <<>>
                /\ prjs # <<>> =>
                     /\ Len(emitted) = 1
                     /\ emitted[1].type = "ProjectActivated"
                     /\ IF /\ active_project_id # None
                           /\ HasId(prjs, active_project_id[1])
                        THEN /\ emitted[1].project.id = active_project_id[1]
                             /\ emitted[1].update_parents = No
                        ELSE /\ emitted[1].project = prjs[1]
                             /\ emitted[1].update_parents = Yes
       /\ (/\ ProjectSelectedFromElsewhere
           /\ ~HasId(projects, Head(stream).pid)) =>
                /\ stream' = Tail(stream)
                /\ UNCHANGED active_project_id
      ]_vars

\* A list of two projects arrived while the second of them was active, and
\* the one activation it emitted, for that project, waits in the stream.
C27_Witness ==
    /\ projects = AllProjects
    /\ active_project_id = Some(AllProjects[2].id)
    /\ stream = <<MsgProjectActivated(AllProjects[2], No, TRUE)>>


(***************************************************************************)
(* Properties of the history file.                                         *)
(***************************************************************************)
\* The last n entries of a sequence.
LastEntries(seq, n) ==
    IF n >= Len(seq) THEN seq ELSE SubSeq(seq, Len(seq) - n + 1, Len(seq))

\* C29: a write_history call that does not return early for a repeated
\* command ends without failure and leaves at most limit entries in the
\* file: the most recent entries of the original history, in their order,
\* then the latest entry.
C29_WriteRespectsLimit ==
    (write_call # None /\ write_call[1].outcome # "unchanged") =>
        LET c == write_call[1]
            lines == file_lines(history_file)
            entries == [i \in 1..Len(lines) |-> parse_history_line(lines[i])]
        IN  /\ c.outcome = "written"
            /\ Len(entries) <= c.limit
            /\ entries = LastEntries(c.orig \o <<c.latest>>, Len(entries))
            /\ Len(entries) > 0 => entries[Len(entries)] = c.latest

\* C30: a history line serialized and parsed back is the command and the
\* linked item it was made of.
C30_LineRoundTrip ==
    round_trip # None => round_trip[1].back = round_trip[1].line

====
